---- MODULE Spec2Model ----
(***************************************************************************)
(* Model of src/utils/kaleidoscope.py: class Kaleidoscope with the methods *)
(* ParaMirrorCavity, KaleidoExpan and KaleidoTransform.                    *)
(*                                                                         *)
(* Tensors are sequences of rows (1-based in TLA+, the 0-based index k of  *)
(* the source is k+1 here).  Tensor elements are float32 numbers, kept as  *)
(* <<m, e>> = m * 2^e with 2^23 <= m < 2^24, and <<0, 0>> for 0.0; the     *)
(* product of two elements is rounded to nearest-even as float32 does.     *)
(* The reflectivity is a dyadic rational [num, sh] = num / 2^sh, so that   *)
(* its powers are exact in double precision as they are in Python.         *)
(***************************************************************************)
EXTENDS Integers, Sequences, FiniteSets

VARIABLES self, op, args, result, pc

vars == <<self, op, args, result, pc>>

---------------------------------------------------------------------------
(* Bounds of the checked inputs.                                           *)

MaxH == 2

MaxW == 2

MaxBase == 1

MaxCavRep == 2

MaxPadSum == 2

MaxRepSum == 2

MaxM == 2

MaxN == 4

MaxBlkH == 2

MaxBlkW == 2

MaxGridH == 3

MaxGridW == 2

---------------------------------------------------------------------------
(* float32 arithmetic.                                                     *)

MantBits == 24

Two(n) == 2 ^ n

Zero32 == <<0, 0>>

RECURSIVE DropBits(_, _)
\* The number of low bits to drop so that n fits MantBits bits.
DropBits(n, s) == IF n \div Two(s) < Two(MantBits) THEN s ELSE DropBits(n, s + 1)

RECURSIVE AddBits(_, _)
\* The number of zero bits to append so that n has MantBits bits.
AddBits(n, s) == IF n * Two(s) >= Two(MantBits - 1) THEN s ELSE AddBits(n, s + 1)

\* The float32 nearest to n * 2^e, ties to even (n a natural below 2^31).
Fl32(n, e) ==
    IF n = 0 THEN Zero32
    ELSE IF n < Two(MantBits)
    THEN LET s == AddBits(n, 0) IN <<n * Two(s), e - s>>
    ELSE LET s    == DropBits(n, 0)
             q    == n \div Two(s)
             rem  == n % Two(s)
             half == Two(s - 1)
             up   == rem > half \/ (rem = half /\ q % 2 = 1)
             m    == IF up THEN q + 1 ELSE q
         IN  IF m = Two(MantBits) THEN <<Two(MantBits - 1), e + s + 1>>
             ELSE <<m, e + s>>

\* The float32 product of two float32 numbers: the exact 48-bit product of
\* the mantissas, in two 24-bit halves, rounded to nearest-even.
Mul32(a, b) ==
    IF a[1] = 0 \/ b[1] = 0 THEN Zero32
    ELSE LET L     == Two(MantBits \div 2)
             ah    == a[1] \div L
             al    == a[1] % L
             bh    == b[1] \div L
             bl    == b[1] % L
             mid   == ah * bl + al * bh
             losum == al * bl + (mid % L) * L
             lo    == losum % Two(MantBits)
             hi    == ah * bh + (mid \div L) + (losum \div Two(MantBits))
             big   == hi >= Two(MantBits - 1)
             q     == IF big THEN hi ELSE 2 * hi + (lo \div Two(MantBits - 1))
             rem   == IF big THEN lo ELSE lo % Two(MantBits - 1)
             half  == IF big THEN Two(MantBits - 1) ELSE Two(MantBits - 2)
             e     == a[2] + b[2] + (IF big THEN MantBits ELSE MantBits - 1)
             up    == rem > half \/ (rem = half /\ q % 2 = 1)
             m     == IF up THEN q + 1 ELSE q
         IN  IF m = Two(MantBits) THEN <<Two(MantBits - 1), e + 1>>
             ELSE <<m, e>>

\* reflectivity ** k for a natural k: exact in double precision (the
\* numerator stays below 2^31 here), then stored as float32.
Pow(r, k) == Fl32(r.num ^ k, -(r.sh * k))

---------------------------------------------------------------------------
(* Tensor helpers (torch).                                                 *)

Height(m) == Len(m)

Width(m) == Len(m[1])

\* The tensor with rows y |-> row(y), held as a sequence of sequences.
Mat(m) == [y \in 1..Len(m) |-> m[y] \o <<>>] \o <<>>

\* torch.zeros(h, w)
Zeros(h, w) == Mat([y \in 1..h |-> [x \in 1..w |-> Zero32]])

\* torch.flip(m, [1]): the column order reversed.
FlipCols(m) ==
    LET w == Width(m)
    IN  Mat([y \in 1..Height(m) |-> [x \in 1..w |-> m[y][w + 1 - x]]])

\* torch.flip(m, [0]): the row order reversed.
FlipRows(m) ==
    LET h == Height(m)
    IN  Mat([y \in 1..h |-> m[h + 1 - y]])

\* m.t()
Transpose(m) ==
    LET h == Height(m)
    IN  Mat([x \in 1..Width(m) |-> [y \in 1..h |-> m[y][x]]])

\* m * f, elementwise, in float32.
Scale(m, f) ==
    LET w == Width(m)
    IN  Mat([y \in 1..Height(m) |-> [x \in 1..w |-> Mul32(m[y][x], f)]])

\* Python's range(start, stop, step) / torch.arange, as a sequence.
PyRange(start, stop, step) ==
    LET d == IF step > 0 THEN stop - start ELSE start - stop
        s == IF step > 0 THEN step ELSE -step
        n == IF d <= 0 THEN 0 ELSE (d + s - 1) \div s
    IN  [i \in 1..n |-> start + (i - 1) * step]

Elems(s) == {s[i] : i \in 1..Len(s)}

Sum2(p) == p[1] + p[2]

Abs(x) == IF x < 0 THEN -x ELSE x

Odd(x) == x % 2 = 1

\* The h x w block of m below row r0 and right of column c0.
SubMat(m, r0, c0, h, w) == Mat([y \in 1..h |-> [x \in 1..w |-> m[r0 + y][c0 + x]]])

\* The p-th (0-based) block of w columns of m.
Tile(m, p, w) == Mat([y \in 1..Height(m) |-> [x \in 1..w |-> m[y][p * w + x]]])

---------------------------------------------------------------------------
(* Kaleidoscope.ParaMirrorCavity                                           *)

\* A flip list that starts two images from the centre instead of one.
FlipIdxFromTwo(num_reps) ==
    PyRange(num_reps[1] - 2, -1, -2) \o PyRange(num_reps[1] + 2, Sum2(num_reps) + 1, 2)

\* The list of image indices to be flipped horizontally.
FlipIdx(num_reps) ==
    PyRange(num_reps[1] - 1, -1, -2) \o PyRange(num_reps[1] + 1, Sum2(num_reps) + 1, 2)

\* The list of image indices NOT to be flipped horizontally.
KeepIdx(num_reps) == (0..Sum2(num_reps)) \ Elems(FlipIdx(num_reps))

\* Exponents that count the images on the left from 0 instead of 1.
AttenIdxLeftFromZero(num_reps) ==
    PyRange(num_reps[1] - 1, -1, -1) \o PyRange(0, num_reps[2] + 1, 1)

\* The attenuation exponent of each image in the row.
AttenIdx(num_reps) ==
    PyRange(num_reps[1], 0, -1) \o PyRange(0, num_reps[2] + 1, 1)

ParaMirrorCavity(slf, padded_image, num_reps) ==
    LET im          == padded_image
        h           == Height(im)
        w           == Width(im)
        n           == Sum2(num_reps) + 1
        flipIdx     == Elems(FlipIdx(num_reps))
        keepIdx     == KeepIdx(num_reps)
        attenIdx    == AttenIdx(num_reps)
        attenFactor == [i \in 1..Len(attenIdx) |->
                           Pow(slf.reflectivity, attenIdx[i])] \o <<>>
        imHoriFlip  == FlipCols(im)
        \* imageRow[y, i, x] after the two indexed assignments
        copy(y, i, x) == IF i \in keepIdx THEN im[y][x]
                         ELSE IF i \in flipIdx THEN imHoriFlip[y][x]
                         ELSE Zero32
        \* imageRow[:, i, :] * attenFactor[i], and imageRow.view(h, -1)
        imageRow    == Mat([y \in 1..h |->
                          [c \in 1..(n * w) |->
                             LET i == (c - 1) \div w
                                 x == ((c - 1) % w) + 1
                             IN  Mul32(copy(y, i, x), attenFactor[i + 1])]])
    IN  [kind |-> "array", val |-> imageRow]

---------------------------------------------------------------------------
(* Kaleidoscope.KaleidoExpan                                               *)

\* im.squeeze(): the shape without its dimensions of size 1.
SqueezedShape(shape) == SelectSeq(shape, LAMBDA d : d # 1)

\* im_padded = torch.zeros(h, w); im_padded[pad[0]:(h-pad[1]), pad[2]:(w-pad[3])] = im
PadImage(im, pad) ==
    LET h == Height(im) + pad[1] + pad[2]
        w == Width(im) + pad[3] + pad[4]
    IN  Mat([y \in 1..h |-> [x \in 1..w |->
            IF /\ y - 1 >= pad[1] /\ y - 1 < h - pad[2]
               /\ x - 1 >= pad[3] /\ x - 1 < w - pad[4]
            THEN im[y - pad[1]][x - pad[3]]
            ELSE Zero32]])

\* repN[2:]: the repetitions to the left and right.
RowReps(repN) == <<repN[3], repN[4]>>

\* repN[0:2]: the repetitions up and down.
ColReps(repN) == <<repN[1], repN[2]>>

KaleidoExpan(slf, original_image) ==
    LET shape == SqueezedShape(original_image.shape)
    IN  IF Len(shape) # 2
        THEN \* (h, w) = im.shape cannot unpack
             [kind |-> "ValueError"]
        ELSE LET im         == PadImage(original_image.data, slf.padding)
                 rowMirror  == ParaMirrorCavity(slf, im, RowReps(slf.repNums)).val
                 fullMirror == ParaMirrorCavity(slf, Transpose(rowMirror),
                                                ColReps(slf.repNums)).val
             IN  [kind |-> "array", val |-> Transpose(fullMirror)]

---------------------------------------------------------------------------
(* Kaleidoscope.KaleidoTransform                                           *)

\* Whether index k is accepted for a dimension of size n: torch indexing
\* and torch.take count a negative index from the end.
InRange(k, n) == k >= -n /\ k < n

\* The 0-based position that index k denotes in a dimension of size n.
Wrapped(k, n) == IF k < 0 THEN k + n ELSE k

\* The remainder as C computes it: negative for a negative difference.
OddOffsetTruncating(i, c) == i - c > 0 /\ (i - c) % 2 = 1

\* (i - centerBlk[k]) % 2 == 1, with Python's non-negative remainder.
OddOffset(i, c) == (i - c) % 2 = 1

\* The larger of the two distances instead of their sum.
BouncesLargerAxis(i, j, centerBlk) ==
    IF Abs(i - centerBlk[1]) > Abs(j - centerBlk[2])
    THEN Abs(i - centerBlk[1]) ELSE Abs(j - centerBlk[2])

\* abs(i-centerBlk[0]) + abs(j-centerBlk[1])
Bounces(i, j, centerBlk) == Abs(i - centerBlk[1]) + Abs(j - centerBlk[2])

\* The block placed at the bottom and right padding instead.
BlockOffsetFromEnd(pad) == <<pad[2], pad[4]>>

\* transBlkRow[pad[0]:pad[0]+blk_h, j, pad[2]:pad[2]+blk_w]: where the
\* block starts within its padded cell.
BlockOffset(pad) == <<pad[1], pad[3]>>

\* linBlk = torch.take(matIn[blkIdx[i, j], :], linIdx); blk2D = linBlk.view(pxIdx.shape)
Gather(matIn, pxIdx, b) ==
    LET row == matIn[Wrapped(b, Height(matIn)) + 1]
        n   == Width(matIn)
        w   == Width(pxIdx)
    IN  Mat([y \in 1..Height(pxIdx) |-> [x \in 1..w |->
                row[Wrapped(pxIdx[y][x], n) + 1]]])

\* blk2D for the block at (i, j), 0-based, after the flips and the scaling.
Block(slf, matIn, pxIdx, blkIdx, centerBlk, i, j) ==
    LET blk2D == Gather(matIn, pxIdx, blkIdx[i + 1][j + 1])
    IN  IF Len(centerBlk) = 0 THEN blk2D
        ELSE IF Len(centerBlk) = 2
        THEN LET v == IF OddOffset(i, centerBlk[1]) THEN FlipRows(blk2D) ELSE blk2D
                 f == IF OddOffset(j, centerBlk[2]) THEN FlipCols(v) ELSE v
             IN  Scale(f, Pow(slf.reflectivity, Bounces(i, j, centerBlk)))
        ELSE blk2D

KaleidoTransform(slf, matIn, pxIdx, blkIdx, centerBlk) ==
    LET pad          == slf.padding
        blk_h        == Height(pxIdx)
        blk_w        == Width(pxIdx)
        blk_h_pad    == blk_h + pad[1] + pad[2]
        blk_w_pad    == blk_w + pad[3] + pad[4]
        blk_rowCount == Height(blkIdx)
        blk_colCount == Width(blkIdx)
        off          == BlockOffset(pad)
        \* an index that matIn[blkIdx[i, j], :] or torch.take refuses
        refused      ==
            \/ \E i \in 1..blk_rowCount, j \in 1..blk_colCount :
                  ~InRange(blkIdx[i][j], Height(matIn))
            \/ \E y \in 1..blk_h, x \in 1..blk_w :
                  ~InRange(pxIdx[y][x], Width(matIn))
        blocks       ==
            [i \in 1..blk_rowCount |->
                [j \in 1..blk_colCount |->
                    Block(slf, matIn, pxIdx, blkIdx, centerBlk, i - 1, j - 1)]
                \o <<>>] \o <<>>
        \* transImage.t(): cell (i, j) holds transBlkRow[:, j, :] of row i
        transImage   ==
            Mat([r \in 1..(blk_rowCount * blk_h_pad) |->
                   [c \in 1..(blk_colCount * blk_w_pad) |->
                      LET i == (r - 1) \div blk_h_pad
                          y == (r - 1) % blk_h_pad
                          j == (c - 1) \div blk_w_pad
                          x == (c - 1) % blk_w_pad
                      IN  IF /\ y >= off[1] /\ y < off[1] + blk_h
                             /\ x >= off[2] /\ x < off[2] + blk_w
                          THEN blocks[i + 1][j + 1][y - off[1] + 1][x - off[2] + 1]
                          ELSE Zero32]])
    IN  IF refused THEN [kind |-> "IndexError"]
        ELSE [kind |-> "array", val |-> transImage]

---------------------------------------------------------------------------
(* Inputs.                                                                 *)

\* The float32 values k/255, k = 0..11, that ToTensor gives 8-bit pixels.
ToTensorLevels ==
    << <<0, 0>>, <<8421505, -31>>, <<8421505, -30>>, <<12632257, -30>>,
       <<8421505, -29>>, <<10526881, -29>>, <<12632257, -29>>,
       <<14737633, -29>>, <<8421505, -28>>, <<9474193, -28>>,
       <<10526881, -28>>, <<11579569, -28>> >>

\* The h x w image whose pixels are the levels base, base+1, ... row by row.
Image(h, w, base) ==
    Mat([y \in 1..h |-> [x \in 1..w |->
        ToTensorLevels[((base + (y - 1) * w + (x - 1)) % Len(ToTensorLevels)) + 1]]])

Images == {Image(h, w, base) : h \in 1..MaxH, w \in 1..MaxW, base \in 0..MaxBase}

\* 1.0, 0.75 and (outside (0, 1]) 2.0
Reflectivities ==
    {[num |-> 1, sh |-> 0], [num |-> 3, sh |-> 2], [num |-> 2, sh |-> 0]}

CavReps == (0..MaxCavRep) \X (0..MaxCavRep)

\* The 4-tuples of naturals with sum at most n.
Tuples4(n) ==
    {t \in (0..n) \X (0..n) \X (0..n) \X (0..n) : t[1] + t[2] + t[3] + t[4] <= n}

Paddings == Tuples4(MaxPadSum)

RepNums == Tuples4(MaxRepSum)

\* An image as a 2-D tensor, or with the leading colour-channel dimension
\* that ToTensor gives a grey-scale picture.
ImageTensors ==
    {[shape |-> lead \o <<Height(im), Width(im)>>, data |-> im] :
        lead \in {<<>>, <<1>>}, im \in Images}

\* Kaleidoscope.__init__
NewKaleidoscope(repNums, padding, reflectivity) ==
    [repNums |-> repNums, padding |-> padding, reflectivity |-> reflectivity]

NoResult == [kind |-> "none"]

\* The MaxM x MaxN matrix whose rows are flattened pictures.
MatIn == Image(MaxM, MaxN, 1)

\* An h x w index map c + ((s*y + x) mod n): row-major when s = w, folded
\* (one source index at several places) when s = 1.
IndexMap(h, w, c, s, n) ==
    Mat([y \in 1..h |-> [x \in 1..w |-> c + ((s * (y - 1) + (x - 1)) % n)]])

\* Offsets that put index values below -n, below 0, in range and above it.
Offsets(n) == {-(n + 1), -1, 0, 1}

PxIdxMaps(cs) ==
    {IndexMap(h, w, c, IF rowMajor THEN w ELSE 1, MaxN) :
        h \in 1..MaxBlkH, w \in 1..MaxBlkW, c \in cs, rowMajor \in BOOLEAN}

BlkIdxMaps(cs) ==
    {IndexMap(h, w, c, w, per) :
        h \in 1..MaxGridH, w \in 1..MaxGridW, c \in cs, per \in {1, MaxM}}

\* No centre block, or any block of the grid as the centre.
CenterBlks(blkIdx) ==
    {<<>>} \cup ((0..(Height(blkIdx) - 1)) \X (0..(Width(blkIdx) - 1)))

---------------------------------------------------------------------------
(* Calls of ParaMirrorCavity.                                              *)

InitCavity ==
    /\ \E r \in Reflectivities, im \in Images, reps \in CavReps :
          /\ self = NewKaleidoscope(<<0, 0>> \o reps, <<0, 0, 0, 0>>, r)
          /\ args = [padded_image |-> im, num_reps |-> reps]
    /\ op = "ParaMirrorCavity"
    /\ result = NoResult
    /\ pc = "call"

ParaMirrorCavityCall ==
    /\ pc = "call"
    /\ op = "ParaMirrorCavity"
    /\ result' = ParaMirrorCavity(self, args.padded_image, args.num_reps)
    /\ pc' = "done"
    /\ UNCHANGED <<self, op, args>>

SpecCavity == InitCavity /\ [][ParaMirrorCavityCall]_vars

---------------------------------------------------------------------------
(* Calls of KaleidoExpan.                                                  *)

InitExpan ==
    /\ \E repN \in RepNums, pad \in Paddings, r \in Reflectivities :
          self = NewKaleidoscope(repN, pad, r)
    /\ \E t \in ImageTensors : args = [original_image |-> t]
    /\ op = "KaleidoExpan"
    /\ result = NoResult
    /\ pc = "call"

KaleidoExpanCall ==
    /\ pc = "call"
    /\ op = "KaleidoExpan"
    /\ result' = KaleidoExpan(self, args.original_image)
    /\ pc' = "done"
    /\ UNCHANGED <<self, op, args>>

SpecExpan == InitExpan /\ [][KaleidoExpanCall]_vars

---------------------------------------------------------------------------
(* Calls of KaleidoTransform: index maps within range under every          *)
(* configuration, and index maps that leave the range under the default    *)
(* one.                                                                    *)

InitTransform ==
    /\ \/ \E pad \in Paddings, r \in {q \in Reflectivities : q.num <= Two(q.sh)},
             px \in PxIdxMaps({0}), blk \in BlkIdxMaps({0}) :
             \E cb \in CenterBlks(blk) :
                /\ self = NewKaleidoscope(<<0, 0, 0, 0>>, pad, r)
                /\ args = [matIn |-> MatIn, pxIdx |-> px, blkIdx |-> blk,
                           centerBlk |-> cb]
       \/ \E px \in PxIdxMaps(Offsets(MaxN)), blk \in BlkIdxMaps(Offsets(MaxM)) :
             /\ self = NewKaleidoscope(<<0, 0, 0, 0>>, <<0, 0, 0, 0>>,
                                       [num |-> 1, sh |-> 0])
             /\ args = [matIn |-> MatIn, pxIdx |-> px, blkIdx |-> blk,
                        centerBlk |-> <<>>]
    /\ op = "KaleidoTransform"
    /\ result = NoResult
    /\ pc = "call"

KaleidoTransformCall ==
    /\ pc = "call"
    /\ op = "KaleidoTransform"
    /\ result' = KaleidoTransform(self, args.matIn, args.pxIdx, args.blkIdx,
                                  args.centerBlk)
    /\ pc' = "done"
    /\ UNCHANGED <<self, op, args>>

SpecTransform == InitTransform /\ [][KaleidoTransformCall]_vars

---------------------------------------------------------------------------
(* Claims about ParaMirrorCavity, checked under SpecCavity.                *)

CavityDone == pc = "done" /\ op = "ParaMirrorCavity"

R075 == [num |-> 3, sh |-> 2]

\* The tile is the column-reversed input, times some power of the reflectivity.
TileReversed(out, p, im, r, n) ==
    \E k \in 0..n : Tile(out, p, Width(im)) = Scale(FlipCols(im), Pow(r, k))

\* The tile is the input in its own column order, times some power of the
\* reflectivity.
TileOriginal(out, p, im, r, n) ==
    \E k \in 0..n : Tile(out, p, Width(im)) = Scale(im, Pow(r, k))

\* C1: the output of ParaMirrorCavity on an H x W input with repetitions
\* (before, after) has H rows and T = before+after+1 tiles of width W; the
\* tile at position p is the column-reversed input when |p - before| is odd
\* and the input in its own column order when it is even, and for an input
\* that differs from its mirror image it is the reversed one only when
\* |p - before| is odd.
C1_FlipParity ==
    CavityDone =>
        LET im     == args.padded_image
            before == args.num_reps[1]
            n      == Sum2(args.num_reps) + 1
            r      == self.reflectivity
        IN  /\ result.kind = "array"
            /\ Height(result.val) = Height(im)
            /\ Width(result.val) = n * Width(im)
            /\ \A p \in 0..(n - 1) :
                  /\ Odd(Abs(p - before)) => TileReversed(result.val, p, im, r, n)
                  /\ ~Odd(Abs(p - before)) => TileOriginal(result.val, p, im, r, n)
                  /\ FlipCols(im) # im =>
                        (TileReversed(result.val, p, im, r, n) <=> Odd(Abs(p - before)))

\* Two repetitions on each side of an image that differs from its mirror
\* image: the tiles next to the centre are reversed, those two away are not.
C1_Witness ==
    /\ CavityDone
    /\ args.num_reps = <<2, 2>>
    /\ self.reflectivity = R075
    /\ FlipCols(args.padded_image) # args.padded_image
    /\ Tile(result.val, 1, Width(args.padded_image))
          = Scale(FlipCols(args.padded_image), Pow(R075, 1))
    /\ Tile(result.val, 3, Width(args.padded_image))
          = Scale(FlipCols(args.padded_image), Pow(R075, 1))
    /\ Tile(result.val, 0, Width(args.padded_image))
          = Scale(args.padded_image, Pow(R075, 2))
    /\ Tile(result.val, 4, Width(args.padded_image))
          = Scale(args.padded_image, Pow(R075, 2))

\* C2: the tile at position p is the (flipped or original) input multiplied
\* by reflectivity^|p - before|; the exponents are never negative and 0 for
\* exactly one tile, the one at p = before, which carries the input unscaled.
C2_Attenuation ==
    CavityDone =>
        LET im     == args.padded_image
            before == args.num_reps[1]
            n      == Sum2(args.num_reps) + 1
            r      == self.reflectivity
            expo   == AttenIdx(args.num_reps)
        IN  /\ result.kind = "array"
            /\ Len(expo) = n
            /\ \A p \in 0..(n - 1) :
                  /\ expo[p + 1] = Abs(p - before)
                  /\ expo[p + 1] >= 0
                  /\ expo[p + 1] = 0 <=> p = before
                  /\ Tile(result.val, p, Width(im))
                        \in {Scale(im, Pow(r, Abs(p - before))),
                             Scale(FlipCols(im), Pow(r, Abs(p - before)))}
            /\ Tile(result.val, before, Width(im)) = im

\* One repetition before and two after, reflectivity 0.75: the last tile is
\* the input times 0.75^2, and differs from the input.
C2_Witness ==
    /\ CavityDone
    /\ args.num_reps = <<1, 2>>
    /\ self.reflectivity = R075
    /\ Tile(result.val, 3, Width(args.padded_image))
          = Scale(args.padded_image, Pow(R075, 2))
    /\ Tile(result.val, 3, Width(args.padded_image)) # args.padded_image
    /\ Tile(result.val, 1, Width(args.padded_image)) = args.padded_image

---------------------------------------------------------------------------
(* Claims about KaleidoExpan, checked under SpecExpan.                     *)

ExpanDone == pc = "done" /\ op = "KaleidoExpan"

ImgH == Height(args.original_image.data)

ImgW == Width(args.original_image.data)

\* The height and width of one padded tile or cell around an h x w block.
CellH(h) == h + self.padding[1] + self.padding[2]

CellW(w) == w + self.padding[3] + self.padding[4]

\* The zero canvas with im at offset (top, left).
ZeroPadded(im, pad) ==
    Mat([y \in 1..(Height(im) + pad[1] + pad[2]) |->
           [x \in 1..(Width(im) + pad[3] + pad[4]) |->
              IF /\ y > pad[1] /\ y <= pad[1] + Height(im)
                 /\ x > pad[3] /\ x <= pad[3] + Width(im)
              THEN im[y - pad[1]][x - pad[3]]
              ELSE Zero32]])

ExpanShapeOK ==
    /\ result.kind = "array"
    /\ Height(result.val) = CellH(ImgH) * (self.repNums[1] + self.repNums[2] + 1)
    /\ Width(result.val) = CellW(ImgW) * (self.repNums[3] + self.repNums[4] + 1)

\* C5: for every image of shape (H, W) with H, W >= 1 the result
\* of KaleidoExpan has (H+top+bottom)*(up+down+1) rows and
\* (W+left+right)*(left_reps+right_reps+1) columns.
C5_ShapeFromOne == ExpanDone => ExpanShapeOK

CentreTile ==
    SubMat(result.val, self.repNums[1] * CellH(ImgH), self.repNums[3] * CellW(ImgW),
           CellH(ImgH), CellW(ImgW))

CentreKept ==
    /\ result.kind = "array"
    /\ CentreTile = ZeroPadded(args.original_image.data, self.padding)

\* C6: for every image the tile of the output at tile row `up` and
\* tile column `left` is the zero-padded original image, the image at offset
\* (top, left_pad), not flipped and not attenuated.
C6_CentreOfAnyImage == ExpanDone => CentreKept

\* The border of a padded cell is zero: its first `top` and last `bottom`
\* rows, its first `left` and last `right` columns.
BorderZero(cell, pad, h, w) ==
    \A y \in 1..Height(cell), x \in 1..Width(cell) :
        (y <= pad[1] \/ y > pad[1] + h \/ x <= pad[3] \/ x > pad[3] + w)
            => cell[y][x] = Zero32

\* The four mirror images of a block.
Mirrorings(b) == {b, FlipCols(b), FlipRows(b), FlipRows(FlipCols(b))}

\* A mirror image of block b, multiplied by one or two powers of the
\* reflectivity, for at most n bounces.
IsContent(m, b, r, n) ==
    \E f \in Mirrorings(b), k \in 0..n, l \in 0..n :
        m = Scale(Scale(f, Pow(r, k)), Pow(r, l))

\* C7: in the output of KaleidoExpan and of KaleidoTransform every tile or
\* block cell, reflected or not, has its first `top` rows, last `bottom`
\* rows, first `left` columns and last `right` columns zero, and the image
\* or block content in the interior at offset (top, left).
C7_PaddingSameInEveryTile ==
    /\ ExpanDone /\ result.kind = "array" =>
          \A ti \in 0..(self.repNums[1] + self.repNums[2]),
             tj \in 0..(self.repNums[3] + self.repNums[4]) :
             LET cell == SubMat(result.val, ti * CellH(ImgH), tj * CellW(ImgW),
                                CellH(ImgH), CellW(ImgW))
             IN  /\ BorderZero(cell, self.padding, ImgH, ImgW)
                 /\ IsContent(SubMat(cell, self.padding[1], self.padding[3], ImgH, ImgW),
                              args.original_image.data, self.reflectivity,
                              self.repNums[1] + self.repNums[2]
                                 + self.repNums[3] + self.repNums[4])
    /\ pc = "done" /\ op = "KaleidoTransform" /\ result.kind = "array" =>
          \A i \in 0..(Height(args.blkIdx) - 1), j \in 0..(Width(args.blkIdx) - 1) :
             LET bh   == Height(args.pxIdx)
                 bw   == Width(args.pxIdx)
                 cell == SubMat(result.val, i * CellH(bh), j * CellW(bw),
                                CellH(bh), CellW(bw))
             IN  /\ BorderZero(cell, self.padding, bh, bw)
                 /\ IsContent(SubMat(cell, self.padding[1], self.padding[3], bh, bw),
                              Gather(args.matIn, args.pxIdx, args.blkIdx[i + 1][j + 1]),
                              self.reflectivity,
                              Height(args.blkIdx) + Width(args.blkIdx))

\* reflectivity outside (0, 1], or a negative padding or repetition count.
InvalidConfig(k) ==
    \/ ~(k.reflectivity.num > 0 /\ k.reflectivity.num <= Two(k.reflectivity.sh))
    \/ \E i \in 1..4 : k.padding[i] < 0 \/ k.repNums[i] < 0

\* C9: a call of KaleidoExpan, ParaMirrorCavity or KaleidoTransform on a
\* Kaleidoscope with an invalid configuration ends in an InvalidConfig error
\* and returns no array.
C9_InvalidConfigReported ==
    pc = "done" /\ InvalidConfig(self) => result.kind = "InvalidConfig"

---------------------------------------------------------------------------
(* Claims about KaleidoTransform, checked under SpecTransform.             *)

TransformDone == pc = "done" /\ op = "KaleidoTransform"

GridH == Height(args.blkIdx)

GridW == Width(args.blkIdx)

BlkH == Height(args.pxIdx)

BlkW == Width(args.pxIdx)

\* Every value of blkIdx is in [0, M) and every value of pxIdx in [0, N).
IndicesValid ==
    /\ \A i \in 1..GridH, j \in 1..GridW :
          args.blkIdx[i][j] >= 0 /\ args.blkIdx[i][j] < Height(args.matIn)
    /\ \A y \in 1..BlkH, x \in 1..BlkW :
          args.pxIdx[y][x] >= 0 /\ args.pxIdx[y][x] < Width(args.matIn)

\* The unit block of grid position (i, j), 0-based: matIn[blkIdx[i,j], pxIdx[y,x]].
UnitBlock(i, j) ==
    Mat([y \in 1..BlkH |-> [x \in 1..BlkW |->
            args.matIn[args.blkIdx[i + 1][j + 1] + 1][args.pxIdx[y][x] + 1]]])

\* What the output holds inside the padding of grid position (i, j).
Interior(i, j) ==
    SubMat(result.val, i * CellH(BlkH) + self.padding[1],
           j * CellW(BlkW) + self.padding[3], BlkH, BlkW)

\* C3: with a centre block (ci, cj) and index maps within range, the block
\* of every grid position (i, j), on either side of the centre, is the unit
\* block of row blkIdx[i,j], row-reversed if and only if i - ci is odd,
\* column-reversed if and only if j - cj is odd, and then multiplied by
\* reflectivity^(|i-ci| + |j-cj|); the block at (ci, cj) is the unit block
\* itself.
C3_BlockFlipAndAttenuation ==
    TransformDone /\ IndicesValid /\ Len(args.centerBlk) = 2 =>
        LET ci == args.centerBlk[1]
            cj == args.centerBlk[2]
        IN  /\ result.kind = "array"
            /\ \A i \in 0..(GridH - 1), j \in 0..(GridW - 1) :
                  LET u == UnitBlock(i, j)
                      v == IF Odd(Abs(i - ci)) THEN FlipRows(u) ELSE u
                      f == IF Odd(Abs(j - cj)) THEN FlipCols(v) ELSE v
                  IN  Interior(i, j)
                         = Scale(f, Pow(self.reflectivity, Abs(i - ci) + Abs(j - cj)))
            /\ Interior(ci, cj) = UnitBlock(ci, cj)

\* A 3 x 2 grid around the centre (1, 0), reflectivity 0.75: the block at
\* (0, 1), above and right of the centre, is reversed on both axes and
\* multiplied by 0.75^2; the block at (2, 0), below it, is row-reversed and
\* multiplied by 0.75.
C3_Witness ==
    /\ TransformDone
    /\ IndicesValid
    /\ args.centerBlk = <<1, 0>>
    /\ GridH = 3 /\ GridW = 2
    /\ BlkH = 2 /\ BlkW = 2
    /\ self.reflectivity = R075
    /\ result.kind = "array"
    /\ Interior(0, 1) = Scale(FlipCols(FlipRows(UnitBlock(0, 1))), Pow(R075, 2))
    /\ Interior(0, 1) # Scale(FlipRows(UnitBlock(0, 1)), Pow(R075, 2))
    /\ Interior(0, 1) # Scale(FlipCols(UnitBlock(0, 1)), Pow(R075, 2))
    /\ Interior(2, 0) = Scale(FlipRows(UnitBlock(2, 0)), Pow(R075, 1))
    /\ Interior(2, 0) # Scale(UnitBlock(2, 0), Pow(R075, 1))

\* C4: without a centre block and with index maps within range, the output
\* has shape (gh*(bh+top+bottom), gw*(bw+left+right)); the cell
\* (i*(bh+top+bottom) + top + y, j*(bw+left+right) + left + x) holds
\* matIn[blkIdx[i,j], pxIdx[y,x]] and every other cell holds 0; so when
\* blkIdx holds one row index everywhere every grid cell holds the same
\* block.
C4_PureTiling ==
    TransformDone /\ IndicesValid /\ args.centerBlk = <<>> =>
        /\ result.kind = "array"
        /\ Height(result.val) = GridH * CellH(BlkH)
        /\ Width(result.val) = GridW * CellW(BlkW)
        /\ \A r \in 1..(GridH * CellH(BlkH)), c \in 1..(GridW * CellW(BlkW)) :
              LET i == (r - 1) \div CellH(BlkH)
                  y == ((r - 1) % CellH(BlkH)) - self.padding[1]
                  j == (c - 1) \div CellW(BlkW)
                  x == ((c - 1) % CellW(BlkW)) - self.padding[3]
              IN  result.val[r][c] =
                     IF y >= 0 /\ y < BlkH /\ x >= 0 /\ x < BlkW
                     THEN args.matIn[args.blkIdx[i + 1][j + 1] + 1]
                                    [args.pxIdx[y + 1][x + 1] + 1]
                     ELSE Zero32
        /\ (\A i \in 1..GridH, j \in 1..GridW : args.blkIdx[i][j] = args.blkIdx[1][1])
              => \A i \in 0..(GridH - 1), j \in 0..(GridW - 1) :
                    SubMat(result.val, i * CellH(BlkH), j * CellW(BlkW),
                           CellH(BlkH), CellW(BlkW))
                       = SubMat(result.val, 0, 0, CellH(BlkH), CellW(BlkW))

\* A 3 x 2 grid of the row 0 everywhere, a 2 x 2 block, padding on top and
\* on the right only: 9 rows and 6 columns, and the blocks at (0, 0) and
\* (2, 1) are both the unit block of row 0.
C4_Witness ==
    /\ TransformDone
    /\ IndicesValid
    /\ args.centerBlk = <<>>
    /\ self.padding = <<1, 0, 0, 1>>
    /\ GridH = 3 /\ GridW = 2
    /\ BlkH = 2 /\ BlkW = 2
    /\ \A i \in 1..GridH, j \in 1..GridW : args.blkIdx[i][j] = 0
    /\ result.kind = "array"
    /\ Height(result.val) = 9 /\ Width(result.val) = 6
    /\ Interior(0, 0) = UnitBlock(0, 0)
    /\ Interior(2, 1) = UnitBlock(0, 0)
    /\ result.val[1][1] = Zero32
    /\ result.val[2][1] # Zero32

\* C8: whenever a value of blkIdx lies outside [0, M) or a value of pxIdx
\* outside [0, N), negative values included, the call ends in an
\* index-out-of-range error and returns no array.
C8_IndexBoundsEnforced ==
    TransformDone /\ ~IndicesValid => result.kind = "IndexError"

---------------------------------------------------------------------------
(* KaleidoExpan against KaleidoTransform, checked under SpecExpan.         *)

SymmetricPadding ==
    self.padding[1] = self.padding[2] /\ self.padding[3] = self.padding[4]

\* matIn with MaxM rows, each the row-major flattening of the image.
FlatRows(im) ==
    Mat([m \in 1..MaxM |-> [n \in 1..(Height(im) * Width(im)) |->
            im[((n - 1) \div Width(im)) + 1][((n - 1) % Width(im)) + 1]]])

\* pxIdx[y, x] = y*W + x
RowMajorPx(im) == IndexMap(Height(im), Width(im), 0, Width(im), Height(im) * Width(im))

\* The block index maps of the grid of KaleidoExpan's tiles: one row index
\* everywhere, and the row indices in turn.
TileGrids ==
    {IndexMap(self.repNums[1] + self.repNums[2] + 1,
              self.repNums[3] + self.repNums[4] + 1,
              0, self.repNums[3] + self.repNums[4] + 1, per) : per \in {1, MaxM}}

\* KaleidoTransform of the flattened image, centred on KaleidoExpan's
\* centre tile.
AsTransform(blk) ==
    KaleidoTransform(self, FlatRows(args.original_image.data),
                     RowMajorPx(args.original_image.data), blk,
                     <<self.repNums[1], self.repNums[3]>>)

\* The padded tile (ti, tj), 0-based, of an output array.
TileAt(out, ti, tj) ==
    SubMat(out, ti * CellH(ImgH), tj * CellW(ImgW), CellH(ImgH), CellW(ImgW))

\* The zero-padded image as tile (ti, tj) shows it: mirrored on each axis
\* on which the tile is an odd number of tiles away from the centre.
MirroredFor(ti, tj) ==
    LET p == ZeroPadded(args.original_image.data, self.padding)
        v == IF Odd(Abs(ti - self.repNums[1])) THEN FlipRows(p) ELSE p
    IN  IF Odd(Abs(tj - self.repNums[3])) THEN FlipCols(v) ELSE v

====
